---- MODULE Spec2Model ----
(***************************************************************************)
(* Model of src/app.py: the Streamlit "Dataset Analyzer".                  *)
(*                                                                         *)
(* One script run is: read the upload, analyze_csv_data (read_csv, the     *)
(* per-column classification loop, the summary text), then either the      *)
(* error message or the overview, the chart-rendering loop, the download   *)
(* section and the presentation section.  pc is the position of the run in *)
(* the script; each action is one step of the script and exactly one       *)
(* action is enabled at every position, so no step can be skipped.         *)
(*                                                                         *)
(* csv_content is the uploaded text, held tokenized: a sequence of lines,  *)
(* a line a sequence of comma-separated fields, a field a sequence of      *)
(* one-character strings.  The text "a\n\n7\n" is                          *)
(*   << <<<<"a">>>>, <<<<>>>>, <<<<"7">>>> >>.                             *)
(* Numbers with a fraction are kept exact, as reduced rationals            *)
(* [num, den].  The digits that '.2f' prints are not computed: a formatted *)
(* field of the summary is the record [f2 |-> value].                      *)
(***************************************************************************)
EXTENDS Integers, Sequences, FiniteSets, TLC

VARIABLES
    csv_content,            \* the uploaded text (line 97)
    pc,                     \* position of the script run
    button,                 \* st.button("Generate and Download PPT") of this run
    df,                     \* the DataFrame (line 26)
    num_rows, num_cols,     \* df.shape (line 30)
    missing_values_count,   \* line 31
    missing_percentage,     \* line 33
    column_info,            \* ordered dict, a sequence of [name, info] (line 35)
    col_pos,                \* position of the loop of line 38 in df.columns
    analysis_results,       \* what analyze_csv_data returned (lines 28, 81-85)
    chart_images_for_ppt,   \* line 113
    num_charts_displayed,   \* line 118
    chart_idx,              \* line 119
    render_pos,             \* position of the loop of line 121 in column_info
    shown,                  \* what the page shows, in order
    slides,                 \* prs.slides of the generated presentation
    faults,                 \* divisions by zero evaluated by the run
    call_log                \* the completed calls of analyze_csv_data: <<input, result>>

vars == <<csv_content, pc, button, df, num_rows, num_cols, missing_values_count,
          missing_percentage, column_info, col_pos, analysis_results,
          chart_images_for_ppt, num_charts_displayed, chart_idx, render_pos,
          shown, slides, faults, call_log>>

-----------------------------------------------------------------------------
(* Bounds of the inputs and of the session.                                *)

\* data lines of an enumerated text
MaxDataLines == 2
\* missing cells of a generated column
MaxMissing == 1
\* script runs of one upload: the first, and those the button starts
MaxRuns == 2
\* calls of analyze_csv_data in a session of several uploads
MaxUploads == 3

-----------------------------------------------------------------------------
(* Values.  A float is [num, den]: the exact value num/den reduced, with   *)
(* den > 0; NaN is 0/0, inf is 1/0 and -inf is -1/0.                       *)

NaN == [num |-> 0, den |-> 0]
Inf == [num |-> 1, den |-> 0]
NegInf == [num |-> -1, den |-> 0]

RECURSIVE GCD(_, _)
GCD(a, b) == IF b = 0 THEN a ELSE GCD(b, a % b)

Abs(x) == IF x < 0 THEN -x ELSE x

Rat(n, d) ==
    LET g == GCD(Abs(n), Abs(d))
        s == IF d < 0 THEN -1 ELSE 1
    IN  [num |-> (s * n) \div g, den |-> (s * d) \div g]

Float(i) == [num |-> i, den |-> 1]

\* a / b with b a numpy integer: x/0 is inf or nan (and a warning), no exception.
TrueDiv(a, b) ==
    IF b # 0 THEN Rat(a, b)
    ELSE IF a = 0 THEN NaN ELSE IF a > 0 THEN Inf ELSE NegInf

\* x > p/q for a float x and p/q > 0; every comparison with NaN is False.
GreaterThan(x, p, q) ==
    IF x.den = 0 THEN x = Inf ELSE x.num * q > p * x.den

\* x * k for a float x and an integer k > 0
Times(x, k) == IF x.den = 0 THEN x ELSE Rat(x.num * k, x.den)

\* The recursions over a sequence split it in halves, so that their depth
\* is the logarithm of its length.
RECURSIVE SumRange(_, _, _)
SumRange(s, lo, hi) ==
    IF lo > hi THEN 0
    ELSE IF lo = hi THEN s[lo]
    ELSE LET mid == (lo + hi) \div 2
         IN  SumRange(s, lo, mid) + SumRange(s, mid + 1, hi)

SeqSum(s) == SumRange(s, 1, Len(s))

RECURSIVE SelectRange(_, _, _, _)
SelectRange(s, keep, lo, hi) ==
    IF lo > hi THEN <<>>
    ELSE IF lo = hi THEN (IF lo \in keep THEN <<s[lo]>> ELSE <<>>)
    ELSE LET mid == (lo + hi) \div 2
         IN  SelectRange(s, keep, lo, mid) \o SelectRange(s, keep, mid + 1, hi)

\* the subsequence of s at the positions of the set keep, in order
SelectSeqOf(s, keep) == SelectRange(s, keep, 1, Len(s))

-----------------------------------------------------------------------------
(* pd.read_csv(io.StringIO(csv_content)) with its defaults (line 26).      *)

\* a missing cell of the DataFrame
NaNCell == <<"NaN">>

\* the default na_values that the fields of the model can spell
NaValues == { <<>>, <<"N", "A">> }

\* skip_blank_lines=True: a line with no character at all
IsBlankLine(line) == line = << <<>> >>

NonBlankLines(lines) ==
    SelectSeqOf(lines, {i \in 1..Len(lines) : ~IsBlankLine(lines[i])})

\* The width of the table: the header's, or the first data line's when longer
\* (its leading fields are then the index, not columns).
TableWidth(header, data) ==
    IF data = <<>> \/ Len(data[1]) <= Len(header) THEN Len(header) ELSE Len(data[1])

\* EmptyDataError: no columns to parse; ParserError: a line after the first
\* data line with more fields than the table is wide.
ParseFailure(lines) ==
    LET nb == NonBlankLines(lines) IN
    IF nb = <<>> THEN "EmptyDataError"
    ELSE LET data == Tail(nb)
             w == TableWidth(nb[1], data)
         IN  IF \E i \in 2..Len(data) : Len(data[i]) > w
             THEN "ParserError" ELSE "none"

\* field k of a data line, a short line padded with empty fields
FieldAt(line, k) == IF k <= Len(line) THEN line[k] ELSE <<>>

ToCell(field) == IF field \in NaValues THEN NaNCell ELSE field

\* The DataFrame of a text that parses: the column names in header order and,
\* per column, its cells in row order.
read_csv(lines) ==
    LET nb == NonBlankLines(lines)
        header == nb[1]
        data == Tail(nb)
        leading == TableWidth(header, data) - Len(header)
    IN  [columns |-> header,
         rows |-> Len(data),
         data |-> [j \in 1..Len(header) |->
                     [i \in 1..Len(data) |-> ToCell(FieldAt(data[i], leading + j))]]]

NoFrame == [columns |-> <<>>, rows |-> 0, data |-> <<>>]

isnull(cell) == cell = NaNCell

\* col_data.isnull().sum()
MissingCount(col) == Cardinality({i \in 1..Len(col) : isnull(col[i])})

-----------------------------------------------------------------------------
(* pd.to_numeric(col_data, errors='coerce').dropna() (line 42).            *)

Digits == <<"0", "1", "2", "3", "4", "5", "6", "7", "8", "9">>

IsDigit(c) == \E d \in 1..10 : Digits[d] = c

DigitVal(c) == (CHOOSE d \in 1..10 : Digits[d] = c) - 1

RECURSIVE StripLeft(_)
StripLeft(f) == IF f # <<>> /\ f[1] = " " THEN StripLeft(Tail(f)) ELSE f

RECURSIVE StripRight(_)
StripRight(f) ==
    IF f # <<>> /\ f[Len(f)] = " " THEN StripRight(SubSeq(f, 1, Len(f) - 1)) ELSE f

RECURSIVE NatOf(_)
\* the value of a non-empty run of decimal digits
NatOf(ds) ==
    IF Len(ds) = 1 THEN DigitVal(ds[1])
    ELSE 10 * NatOf(SubSeq(ds, 1, Len(ds) - 1)) + DigitVal(ds[Len(ds)])

\* An integer literal: an optional "-", then digits; surrounding blanks are ignored.
IsNumeric(field) ==
    LET f == StripRight(StripLeft(field))
        ds == IF f # <<>> /\ f[1] = "-" THEN Tail(f) ELSE f
    IN  ds # <<>> /\ \A k \in 1..Len(ds) : IsDigit(ds[k])

NumericValue(field) ==
    LET f == StripRight(StripLeft(field))
    IN  IF f[1] = "-" THEN 0 - NatOf(Tail(f)) ELSE NatOf(f)

\* faulty variant: fillna(0) in place of dropna(): a cell that does not parse counts as 0
numeric_col_data_filled(col) ==
    [i \in 1..Len(col) |-> IF IsNumeric(col[i]) THEN NumericValue(col[i]) ELSE 0]

\* the parsed values of the cells that parse, in row order
numeric_col_data(col) ==
    LET kept == SelectSeqOf(col, {i \in 1..Len(col) : IsNumeric(col[i])})
    IN  [i \in 1..Len(kept) |-> NumericValue(kept[i])]

-----------------------------------------------------------------------------
(* The statistics of a numeric column (lines 52-57), over the sequence of  *)
(* parsed values.                                                          *)

SeqMin(vals) == CHOOSE v \in {vals[i] : i \in 1..Len(vals)} :
                    \A i \in 1..Len(vals) : v <= vals[i]

SeqMax(vals) == CHOOSE v \in {vals[i] : i \in 1..Len(vals)} :
                    \A i \in 1..Len(vals) : v >= vals[i]

\* the k-th smallest of vals, 1 <= k <= Len(vals)
KthSmallest(vals, k) ==
    CHOOSE v \in {vals[i] : i \in 1..Len(vals)} :
        /\ Cardinality({i \in 1..Len(vals) : vals[i] < v}) < k
        /\ Cardinality({i \in 1..Len(vals) : vals[i] <= v}) >= k

Mean(vals) == TrueDiv(SeqSum(vals), Len(vals))

Median(vals) ==
    LET n == Len(vals) IN
    IF n % 2 = 1 THEN Float(KthSmallest(vals, (n + 1) \div 2))
    ELSE Rat(KthSmallest(vals, n \div 2) + KthSmallest(vals, n \div 2 + 1), 2)

\* faulty variant: the population variance (ddof=0)
VariancePopulation(vals) ==
    LET n == Len(vals)
        sq == [i \in 1..n |-> vals[i] * vals[i]]
    IN  IF n <= 0 THEN NaN
        ELSE Rat(n * SeqSum(sq) - SeqSum(vals) * SeqSum(vals), n * n)

\* Series.var() with pandas' default ddof=1: NaN when count <= ddof, else
\* sum((x - mean)^2) / (n - 1) = (n*sum(x^2) - sum(x)^2) / (n*(n - 1)).
Variance(vals) ==
    LET n == Len(vals)
        sq == [i \in 1..n |-> vals[i] * vals[i]]
    IN  IF n <= 1 THEN NaN
        ELSE Rat(n * SeqSum(sq) - SeqSum(vals) * SeqSum(vals), n * (n - 1))

\* Series.std(): the square root of the variance, kept unevaluated; sqrt(NaN) is NaN.
Std(vals) == [sqrt |-> Variance(vals)]

IsNaN(x) == IF "sqrt" \in DOMAIN x THEN x.sqrt = NaN ELSE x = NaN

-----------------------------------------------------------------------------
(* The classification of one column (lines 39-68).                         *)

\* faulty variant: the quotient of line 49 is evaluated whatever numeric_col_data holds
QuotientAlwaysEvaluated(col) == TRUE

\* `and` evaluates the quotient of line 49 only when numeric_col_data is not empty
QuotientEvaluated(col) == numeric_col_data(col) # <<>>

\* faulty variant: >= 0.8 in place of > 0.8
IsPrimarilyNumericAtLeast(col) ==
    /\ QuotientEvaluated(col)
    /\ LET x == TrueDiv(Len(numeric_col_data(col)), Len(col) - MissingCount(col))
       IN  x.den # 0 /\ x.num * 5 >= 4 * x.den

\* the condition of line 49; 0.8 is 4/5: the quotient of two counts below 2^50
\* exceeds the double 0.8 exactly when it exceeds 4/5
IsPrimarilyNumeric(col) ==
    /\ QuotientEvaluated(col)
    /\ GreaterThan(TrueDiv(Len(numeric_col_data(col)), Len(col) - MissingCount(col)), 4, 5)

ClassifyFaults(col) ==
    IF QuotientEvaluated(col) /\ Len(col) - MissingCount(col) = 0
    THEN {"division by zero"} ELSE {}

\* faulty variant: the values are lower-cased before they are counted
value_counts_folded(col) ==
    LET fold(f) == [c \in 1..Len(f) |-> IF f[c] = "X" THEN "x" ELSE f[c]]
        low == [i \in 1..Len(col) |-> fold(col[i])]
    IN  [v \in {low[i] : i \in {k \in 1..Len(col) : ~isnull(col[k])}} |->
            Cardinality({i \in 1..Len(col) : low[i] = v})]

\* col_data.value_counts().to_dict(): the non-missing values, each with its
\* number of occurrences (the order of the keys is not modelled)
value_counts(col) ==
    [v \in {col[i] : i \in {k \in 1..Len(col) : ~isnull(col[k])}} |->
        Cardinality({i \in 1..Len(col) : col[i] = v})]

NumericInfo(col) ==
    LET vals == numeric_col_data(col) IN
    [type |-> "numeric",
     min |-> Float(SeqMin(vals)),
     max |-> Float(SeqMax(vals)),
     mean |-> Mean(vals),
     median |-> Median(vals),
     std |-> Std(vals),
     count |-> Len(vals),
     missing_count |-> MissingCount(col)]

CategoricalInfo(col) ==
    [type |-> "categorical",
     unique_values |-> Cardinality(DOMAIN value_counts(col)),
     counts |-> value_counts(col),
     missing_count |-> MissingCount(col)]

Classify(col) ==
    IF IsPrimarilyNumeric(col) THEN NumericInfo(col) ELSE CategoricalInfo(col)

\* column_info[col_name] = info on an insertion-ordered dict
DictSet(dict, key, info) ==
    IF \E k \in 1..Len(dict) : dict[k].name = key
    THEN [k \in 1..Len(dict) |->
            IF dict[k].name = key THEN [name |-> key, info |-> info] ELSE dict[k]]
    ELSE Append(dict, [name |-> key, info |-> info])

-----------------------------------------------------------------------------
(* The dataset-wide figures (lines 30-33).                                 *)

RECURSIVE TotalMissing(_)
\* df.isnull().sum().sum()
TotalMissing(data) ==
    IF data = <<>> THEN 0
    ELSE TotalMissing(SubSeq(data, 1, Len(data) - 1)) + MissingCount(data[Len(data)])

\* faulty variant: line 33 without its condition
PercentageAlwaysEvaluated(total_cells) == TRUE

\* the conditional expression of line 33 divides only when total_cells > 0
PercentageEvaluated(total_cells) == total_cells > 0

MissingPercentage(missing, total_cells) ==
    IF PercentageEvaluated(total_cells)
    THEN Times(TrueDiv(missing, total_cells), 100) ELSE Float(0)

PercentageFaults(total_cells) ==
    IF PercentageEvaluated(total_cells) /\ total_cells = 0
    THEN {"division by zero"} ELSE {}

-----------------------------------------------------------------------------
(* The summary text (lines 71-79): a sequence of lines, a line a sequence  *)
(* of pieces: literal text, a column name, an integer printed as it is,    *)
(* a float printed with '.2f'.                                             *)

Lit(s) == [lit |-> s]
Name(n) == [name |-> n]
D(i) == [d |-> i]
F2(x) == [f2 |-> x]

ColumnLine(entry) ==
    LET info == entry.info IN
    IF info.type = "numeric"
    THEN << Lit("- **"), Name(entry.name), Lit("**: "),
            Lit("Numeric (Min: "), F2(info.min), Lit(", Max: "), F2(info.max),
            Lit(", Mean: "), F2(info.mean), Lit(", Median: "), F2(info.median),
            Lit(", Std Dev: "), F2(info.std), Lit(", Non-null: "), D(info.count),
            Lit("). Missing: "), D(info.missing_count), Lit(" values.") >>
    ELSE << Lit("- **"), Name(entry.name), Lit("**: "),
            Lit("Categorical ("), D(info.unique_values),
            Lit(" unique values). Missing: "), D(info.missing_count), Lit(" values.") >>

SummaryText(rows, cols, missing, percentage, info) ==
    << << Lit("The dataset contains "), D(rows), Lit(" rows and "), D(cols),
          Lit(" columns.") >>,
       << Lit("Total missing values across the dataset: "), D(missing), Lit(" ("),
          F2(percentage), Lit("% of all cells).") >>,
       << >>,
       << Lit("Column Details:") >> >>
    \o [k \in 1..Len(info) |-> ColumnLine(info[k])]

-----------------------------------------------------------------------------
(* The uploaded texts.                                                     *)

RECURSIVE DigitsOf(_)
DigitsOf(i) ==
    IF i < 10 THEN << Digits[i + 1] >>
    ELSE Append(DigitsOf(i \div 10), Digits[(i % 10) + 1])

RECURSIVE SeqsUpTo(_, _)
\* the sequences over S of length at most n
SeqsUpTo(S, n) ==
    IF n = 0 THEN { <<>> }
    ELSE LET shorter == SeqsUpTo(S, n - 1)
         IN  shorter \cup {Append(q, x) : q \in {r \in shorter : Len(r) = n - 1}, x \in S}

HeaderNames == << <<"a">>, <<"b">> >>

\* the fields of a one-field data line: "", NA, 7, -7, 07, x, X, " x"
LoneFields == { <<>>, <<"N", "A">>, <<"7">>, <<"-", "7">>, <<"0", "7">>,
                <<"x">>, <<"X">>, <<" ", "x">> }

\* the fields of a two-field data line
PairFields == { <<>>, <<"7">>, <<"x">> }

DataLines == {<<f>> : f \in LoneFields} \cup {<<f, g>> : f \in PairFields, g \in PairFields}

\* a header of one or two names followed by at most MaxDataLines lines
EnumeratedTexts ==
    {<<SubSeq(HeaderNames, 1, h)>> \o body :
        h \in 1..2, body \in SeqsUpTo(DataLines, MaxDataLines)}

\* no line at all, and blank lines only
EmptyTexts == SeqsUpTo({ << <<>> >> }, MaxDataLines)

\* A generated column: the literals 1..n, then t distinct texts x1..xt,
\* then NA up to the number of rows.
GeneratedColumn(n, t, rows) ==
    [i \in 1..rows |->
        IF i <= n THEN DigitsOf(i)
        ELSE IF i <= n + t THEN <<"x">> \o DigitsOf(i - n)
        ELSE <<"N", "A">>]

\* <<numeric values, distinct texts>> of the generated columns: around the
\* 80% limit of line 49 (4 of 5, 5 of 6, 80 and 81 of 100) and around the
\* limits of the charts (49 and 50 distinct values, 10 and 11 numbers)
ColumnShapes ==
    ({0, 1, 4, 5, 10, 11} \X {0, 1, 49, 50}) \cup { <<80, 20>>, <<81, 19>> }

SecondColumnShapes == { <<1, 0>>, <<0, 2>>, <<11, 0>> }

Max(a, b) == IF a >= b THEN a ELSE b

GeneratedTexts ==
    {<< <<HeaderNames[1]>> >> \o
        [i \in 1..(s[1] + s[2] + m) |-> << GeneratedColumn(s[1], s[2], s[1] + s[2] + m)[i] >>] :
        s \in ColumnShapes, m \in 0..MaxMissing}
    \cup
    {<< HeaderNames >> \o
        [i \in 1..Max(s[1] + s[2] + m, u[1] + u[2]) |->
            << GeneratedColumn(s[1], s[2], Max(s[1] + s[2] + m, u[1] + u[2]))[i],
               GeneratedColumn(u[1], u[2], Max(s[1] + s[2] + m, u[1] + u[2]))[i] >>] :
        s \in ColumnShapes, u \in SecondColumnShapes, m \in 0..MaxMissing}

\* the example texts "a\n\n\n\n", "a\n1\n2\nfoo\n" and "a,b\n1,x\n2,y\n3,z\n"
ExampleTexts ==
    { << << <<"a">> >>, << <<>> >>, << <<>> >>, << <<>> >> >>,
      << << <<"a">> >>, << <<"1">> >>, << <<"2">> >>, << <<"f", "o", "o">> >> >>,
      << << <<"a">>, <<"b">> >>, << <<"1">>, <<"x">> >>, << <<"2">>, <<"y">> >>,
         << <<"3">>, <<"z">> >> >> }

Inputs == EmptyTexts \cup EnumeratedTexts \cup GeneratedTexts \cup ExampleTexts

\* the texts of a session with several uploads
SessionInputs ==
    { <<>>,
      << <<<<"a">>>>, <<<<"7">>>> >>,
      << <<<<"a">>>>, <<<<"x">>>>, <<<<"7">>>> >>,
      << <<<<"b">>>>, <<<<"7">>>> >>,
      << << <<"a">>, <<"b">> >>, << <<"7">>, <<>> >> >> }

-----------------------------------------------------------------------------
(* The page.                                                               *)

\* one thing the page shows: the widget and the column it is about
Widget(w, col) == [widget |-> w, col |-> col]

NoColumn == <<>>

NoResult == [pending |-> TRUE]

\* the limits of the rendering loop (lines 124 and 148)
MaxBarCategories == 50
MinHistogramPoints == 10

\* faulty variant: <= in place of < at line 124
BarChartWantedAtMost(info) ==
    info.type = "categorical" /\ info.unique_values <= MaxBarCategories

\* line 124
BarChartWanted(info) ==
    info.type = "categorical" /\ info.unique_values < MaxBarCategories

\* lines 147-148
HistogramWanted(info) ==
    info.type = "numeric" /\ info.count > MinHistogramPoints

ChartTitle(kind, col) ==
    IF kind = "bar" THEN << Lit("Frequency Distribution of "), Name(col) >>
    ELSE << Lit("Distribution of "), Name(col) >>

\* the entry appended to chart_images_for_ppt (lines 143, 163); the image is
\* the chart of that column
ChartImage(kind, col) ==
    [title |-> ChartTitle(kind, col), image_buffer |-> [chart |-> kind, col |-> col]]

TitleSlide == [layout |-> 0, title |-> << Lit("Dataset Analysis Report") >>,
               picture |-> [chart |-> "none", col |-> NoColumn]]

\* lines 213-228: a blank-layout slide with the chart's title and picture
ChartSlide(chart_data) ==
    [layout |-> 6, title |-> chart_data.title, picture |-> chart_data.image_buffer]

\* faulty variant: the presentation without its title slide
BuildSlidesWithoutTitle(images) == [k \in 1..Len(images) |-> ChartSlide(images[k])]

\* lines 200-228
BuildSlides(images) == <<TitleSlide>> \o [k \in 1..Len(images) |-> ChartSlide(images[k])]

-----------------------------------------------------------------------------
(* The script run.                                                         *)

Init ==
    /\ csv_content = <<>>
    /\ pc = "idle"
    /\ button = FALSE
    /\ df = NoFrame
    /\ num_rows = 0
    /\ num_cols = 0
    /\ missing_values_count = 0
    /\ missing_percentage = Float(0)
    /\ column_info = <<>>
    /\ col_pos = 1
    /\ analysis_results = NoResult
    /\ chart_images_for_ppt = <<>>
    /\ num_charts_displayed = 0
    /\ chart_idx = 0
    /\ render_pos = 1
    /\ shown = <<>>
    /\ slides = <<>>
    /\ faults = {}
    /\ call_log = <<>>

\* What a run of the script starts from.  The page is empty and the names of
\* the script are unbound again; the locals of analyze_csv_data are bound by
\* the call (ReadCsv), so what they held is left as it is.
StartRun(content, clicked) ==
    /\ csv_content' = content
    /\ button' = clicked
    /\ pc' = "analyze"
    /\ analysis_results' = NoResult
    /\ chart_images_for_ppt' = <<>>
    /\ num_charts_displayed' = 0
    /\ chart_idx' = 0
    /\ render_pos' = 1
    /\ shown' = <<>>
    /\ slides' = <<>>
    /\ faults' = {}
    /\ UNCHANGED <<df, num_rows, num_cols, missing_values_count, missing_percentage,
                   column_info, col_pos, call_log>>

\* lines 93-100: a file is uploaded and the script runs
Upload(texts) ==
    /\ pc = "idle"
    /\ \E content \in texts : StartRun(content, FALSE)

\* faulty variant: the dict of the last call is filled again
KeptColumnInfo(previous) == previous

\* the dict that the loop of line 38 fills (line 35): an empty one, whatever
\* the name was bound to
NewColumnInfo(previous) == <<>>

\* faulty variant: the error comes with an empty report
ErrorResultWithReport(e) ==
    [error |-> << Lit("Failed to parse CSV: "), Lit(e) >>,
     summary |-> <<>>, column_info |-> <<>>, dataframe |-> NoFrame]

\* line 28
ErrorResult(e) == [error |-> << Lit("Failed to parse CSV: "), Lit(e) >>]

\* lines 24-35: read_csv fails and the error result is returned, or the
\* DataFrame and the dataset-wide figures are computed
ReadCsv ==
    /\ pc = "analyze"
    /\ IF ParseFailure(csv_content) # "none"
       THEN /\ analysis_results' = ErrorResult(ParseFailure(csv_content))
            /\ call_log' = Append(call_log,
                   [input |-> csv_content, result |-> analysis_results'])
            /\ pc' = "returned"
            /\ UNCHANGED <<df, num_rows, num_cols, missing_values_count,
                           missing_percentage, column_info, col_pos, faults>>
       ELSE LET frame == read_csv(csv_content)
                rows == frame.rows
                cols == Len(frame.columns)
                missing == TotalMissing(frame.data)
            IN  /\ df' = frame
                /\ num_rows' = rows
                /\ num_cols' = cols
                /\ missing_values_count' = missing
                /\ missing_percentage' = MissingPercentage(missing, rows * cols)
                /\ faults' = faults \cup PercentageFaults(rows * cols)
                /\ column_info' = NewColumnInfo(column_info)
                /\ col_pos' = 1
                /\ pc' = "classify"
                /\ UNCHANGED <<analysis_results, call_log>>
    /\ UNCHANGED <<csv_content, button, chart_images_for_ppt, num_charts_displayed,
                   chart_idx, render_pos, shown, slides>>

\* lines 38-68: one iteration of the loop over df.columns
ClassifyColumn ==
    /\ pc = "classify"
    /\ col_pos <= Len(df.columns)
    /\ column_info' = DictSet(column_info, df.columns[col_pos], Classify(df.data[col_pos]))
    /\ faults' = faults \cup ClassifyFaults(df.data[col_pos])
    /\ col_pos' = col_pos + 1
    /\ UNCHANGED <<csv_content, pc, button, df, num_rows, num_cols, missing_values_count,
                   missing_percentage, analysis_results, chart_images_for_ppt,
                   num_charts_displayed, chart_idx, render_pos, shown, slides, call_log>>

\* lines 70-85: the loop is over; the summary is written and the result returned
ReturnResults ==
    /\ pc = "classify"
    /\ col_pos > Len(df.columns)
    /\ analysis_results' =
           [summary |-> SummaryText(num_rows, num_cols, missing_values_count,
                                    missing_percentage, column_info),
            column_info |-> column_info,
            dataframe |-> df]
    /\ call_log' = Append(call_log, [input |-> csv_content, result |-> analysis_results'])
    /\ pc' = "returned"
    /\ UNCHANGED <<csv_content, button, df, num_rows, num_cols, missing_values_count,
                   missing_percentage, column_info, col_pos, chart_images_for_ppt,
                   num_charts_displayed, chart_idx, render_pos, shown, slides, faults>>

IsError(result) == "error" \in DOMAIN result

\* lines 102-103
ShowError ==
    /\ pc = "returned"
    /\ IsError(analysis_results)
    /\ shown' = Append(shown, Widget("error", NoColumn))
    /\ pc' = "done"
    /\ UNCHANGED <<csv_content, button, df, num_rows, num_cols, missing_values_count,
                   missing_percentage, column_info, col_pos, analysis_results,
                   chart_images_for_ppt, num_charts_displayed, chart_idx, render_pos,
                   slides, faults, call_log>>

\* lines 105-119
ShowOverview ==
    /\ pc = "returned"
    /\ ~IsError(analysis_results)
    /\ shown' = shown \o << Widget("overview", NoColumn) >>
    /\ chart_images_for_ppt' = <<>>
    /\ num_charts_displayed' = 0
    /\ chart_idx' = 0
    /\ render_pos' = 1
    /\ pc' = "render"
    /\ UNCHANGED <<csv_content, button, df, num_rows, num_cols, missing_values_count,
                   missing_percentage, column_info, col_pos, analysis_results,
                   slides, faults, call_log>>

\* lines 121-168: one iteration of the loop over column_info.items()
RenderColumn ==
    /\ pc = "render"
    /\ render_pos <= Len(analysis_results.column_info)
    /\ LET entry == analysis_results.column_info[render_pos]
           kind == IF BarChartWanted(entry.info) THEN "bar"
                   ELSE IF HistogramWanted(entry.info) THEN "histogram"
                   ELSE "none"
       IN  IF kind # "none"
           THEN /\ shown' = shown \o << Widget(kind, entry.name) >>
                /\ chart_images_for_ppt' =
                       Append(chart_images_for_ppt, ChartImage(kind, entry.name))
                /\ num_charts_displayed' = num_charts_displayed + 1
                /\ chart_idx' = chart_idx + 1
           ELSE /\ shown' = IF entry.info.type = "numeric"
                            THEN shown \o << Widget("not_enough_points", entry.name) >>
                            ELSE shown
                /\ UNCHANGED <<chart_images_for_ppt, num_charts_displayed, chart_idx>>
    /\ render_pos' = render_pos + 1
    /\ UNCHANGED <<csv_content, pc, button, df, num_rows, num_cols, missing_values_count,
                   missing_percentage, column_info, col_pos, analysis_results,
                   slides, faults, call_log>>

\* lines 170-194: the loop is over; the message of line 171 when no chart was
\* displayed, then the download section
DownloadSection ==
    /\ pc = "render"
    /\ render_pos > Len(analysis_results.column_info)
    /\ shown' = shown
                \o (IF num_charts_displayed = 0
                    THEN << Widget("no_suitable_columns", NoColumn) >> ELSE << >>)
                \o << Widget("download_csv", NoColumn), Widget("download_overview", NoColumn) >>
    /\ pc' = "presentation"
    /\ UNCHANGED <<csv_content, button, df, num_rows, num_cols, missing_values_count,
                   missing_percentage, column_info, col_pos, analysis_results,
                   chart_images_for_ppt, num_charts_displayed, chart_idx, render_pos,
                   slides, faults, call_log>>

\* lines 197-297: the button when there are charts, and the presentation when
\* it was clicked; otherwise the message of line 244
PresentationSection ==
    /\ pc = "presentation"
    /\ IF chart_images_for_ppt # <<>>
       THEN IF button
            THEN /\ slides' = BuildSlides(chart_images_for_ppt)
                 /\ shown' = shown \o << Widget("generate_ppt_button", NoColumn),
                                         Widget("download_ppt", NoColumn) >>
            ELSE /\ shown' = shown \o << Widget("generate_ppt_button", NoColumn) >>
                 /\ UNCHANGED slides
       ELSE /\ shown' = shown \o << Widget("upload_to_generate", NoColumn) >>
            /\ UNCHANGED slides
    /\ pc' = "done"
    /\ UNCHANGED <<csv_content, button, df, num_rows, num_cols, missing_values_count,
                   missing_percentage, column_info, col_pos, analysis_results,
                   chart_images_for_ppt, num_charts_displayed, chart_idx, render_pos,
                   faults, call_log>>

ButtonOffered ==
    \E k \in 1..Len(shown) : shown[k].widget = "generate_ppt_button"

\* line 199: the button is clicked and the script runs again on the same file
ClickGenerate ==
    /\ pc = "done"
    /\ ButtonOffered
    /\ Len(call_log) < MaxRuns
    /\ StartRun(csv_content, TRUE)

\* another file is uploaded and the script runs again
UploadAgain(texts) ==
    /\ pc = "done"
    /\ Len(call_log) < MaxUploads
    /\ \E content \in texts : StartRun(content, FALSE)

Next ==
    \/ Upload(Inputs)
    \/ ReadCsv
    \/ ClassifyColumn
    \/ ReturnResults
    \/ ShowError
    \/ ShowOverview
    \/ RenderColumn
    \/ DownloadSection
    \/ PresentationSection
    \/ ClickGenerate

Spec == Init /\ [][Next]_vars

\* a session of several uploads, over a few texts
NextSession ==
    \/ Upload(SessionInputs)
    \/ ReadCsv
    \/ ClassifyColumn
    \/ ReturnResults
    \/ ShowError
    \/ ShowOverview
    \/ RenderColumn
    \/ DownloadSection
    \/ PresentationSection
    \/ ClickGenerate
    \/ UploadAgain(SessionInputs)

SpecSession == Init /\ [][NextSession]_vars

-----------------------------------------------------------------------------
(* What the claims speak of.                                               *)

\* analyze_csv_data has returned
Returned == pc \in {"returned", "render", "presentation", "done"}

\* ... and what it returned is not the error result
Analyzed == Returned /\ ~IsError(analysis_results)

ResultColumns == 1..Len(analysis_results.column_info)
InfoOf(k) == analysis_results.column_info[k].info
CellsOf(k) == analysis_results.dataframe.data[k]

NonMissing(col) == {i \in 1..Len(col) : ~isnull(col[i])}
Parsing(col) == {i \in 1..Len(col) : IsNumeric(col[i])}

\* the sum of f over the positions lo..hi of the set P
RECURSIVE SumAt(_, _, _, _)
SumAt(f, P, lo, hi) ==
    IF lo > hi THEN 0
    ELSE IF lo = hi THEN (IF lo \in P THEN f[lo] ELSE 0)
    ELSE LET mid == (lo + hi) \div 2
         IN  SumAt(f, P, lo, mid) + SumAt(f, P, mid + 1, hi)

\* the parsed value at each position of Parsing(col), 0 elsewhere
ParsedAt(col) ==
    [i \in 1..Len(col) |-> IF IsNumeric(col[i]) THEN NumericValue(col[i]) ELSE 0]

SumParsed(col) == SumAt(ParsedAt(col), Parsing(col), 1, Len(col))

SumSquares(col) ==
    SumAt([i \in 1..Len(col) |-> ParsedAt(col)[i] * ParsedAt(col)[i]],
          Parsing(col), 1, Len(col))

\* the positions of col where a non-missing value occurs for the first time
FirstOccurrences(col) ==
    {i \in NonMissing(col) : \A j \in 1..(i - 1) : col[j] # col[i]}

\* every column of the DataFrame has its entry, in column order
OneEntryPerColumn ==
    /\ Len(analysis_results.column_info) = Len(analysis_results.dataframe.columns)
    /\ \A k \in ResultColumns :
          analysis_results.column_info[k].name = analysis_results.dataframe.columns[k]

-----------------------------------------------------------------------------
(* C1: every column of every parsed dataset is classified numeric exactly  *)
(* when, among its non-missing values, the values that parse as a number   *)
(* are strictly more than 80% (5 * parsed > 4 * non-missing); otherwise it *)
(* is categorical.  4 of 5 is categorical, 81 of 100 is numeric.           *)
C1_NumericIffAbove80Percent ==
    Analyzed =>
        /\ OneEntryPerColumn
        /\ \A k \in ResultColumns :
              /\ InfoOf(k).type \in {"numeric", "categorical"}
              /\ InfoOf(k).type = "numeric" <=>
                    5 * Cardinality(Parsing(CellsOf(k)))
                        > 4 * Cardinality(NonMissing(CellsOf(k)))

\* a column with exactly 4 numeric values among 5 non-missing ones was classified
C1_Witness ==
    /\ Analyzed
    /\ \E k \in ResultColumns :
          /\ Cardinality(NonMissing(CellsOf(k))) = 5
          /\ Cardinality(Parsing(CellsOf(k))) = 4
          /\ InfoOf(k).type = "categorical"

\* a column with 81 numeric values among 100 non-missing ones was classified
C1_Reached81Percent ==
    /\ Analyzed
    /\ \E k \in ResultColumns :
          /\ Cardinality(NonMissing(CellsOf(k))) = 100
          /\ Cardinality(Parsing(CellsOf(k))) = 81
          /\ InfoOf(k).type = "numeric"

-----------------------------------------------------------------------------
(* C2 as stated: a column with no non-missing value is categorical with    *)
(* unique_count 0 and a missing_count equal to the number of rows of the   *)
(* input, 3 for "a\n\n\n\n" (every line after the header line is a row),   *)
(* and the classification divides by zero nowhere.                         *)
C2_MissingCountIsInputRows ==
    Analyzed =>
        \A k \in ResultColumns :
            NonMissing(CellsOf(k)) = {} =>
                /\ InfoOf(k).type = "categorical"
                /\ InfoOf(k).unique_values = 0
                /\ InfoOf(k).missing_count = Len(csv_content) - 1
                /\ faults = {}

(* C2 as amended: a column with no non-missing value is categorical with   *)
(* unique_count 0, no value counts, and a missing_count equal to the       *)
(* number of rows of the parsed dataset; blank lines are not rows, so for  *)
(* "a\n\n\n\n" the dataset has 0 rows and missing_count is 0; and no       *)
(* division by zero is evaluated.                                          *)
C2_AllMissingIsCategorical ==
    Analyzed =>
        /\ \A k \in ResultColumns :
              NonMissing(CellsOf(k)) = {} =>
                  /\ InfoOf(k).type = "categorical"
                  /\ InfoOf(k).unique_values = 0
                  /\ DOMAIN InfoOf(k).counts = {}
                  /\ InfoOf(k).missing_count = analysis_results.dataframe.rows
                  /\ InfoOf(k).missing_count = Len(CellsOf(k))
                  /\ faults = {}
        /\ csv_content = << << <<"a">> >>, << <<>> >>, << <<>> >>, << <<>> >> >> =>
              /\ analysis_results.dataframe.rows = 0
              /\ InfoOf(1).missing_count = 0

\* a column of at least one row, every cell of it missing, was classified
C2_Witness ==
    /\ Analyzed
    /\ \E k \in ResultColumns :
          /\ Len(CellsOf(k)) >= 1
          /\ NonMissing(CellsOf(k)) = {}
          /\ InfoOf(k).type = "categorical"

-----------------------------------------------------------------------------
\* the parsed value of cell i of col
V(col, i) == NumericValue(col[i])

\* m is the median of the parsed values of col: at most half of them lie below
\* it and at most half above, and it is one of them or the midpoint of two of
\* them with none strictly between
IsMedianOf(m, col) ==
    LET P == Parsing(col) IN
    /\ m.den > 0
    /\ 2 * Cardinality({i \in P : V(col, i) * m.den < m.num}) <= Cardinality(P)
    /\ 2 * Cardinality({i \in P : V(col, i) * m.den > m.num}) <= Cardinality(P)
    /\ \E i, j \in P :
          /\ 2 * m.num = (V(col, i) + V(col, j)) * m.den
          /\ ~\E h \in P : V(col, i) < V(col, h) /\ V(col, h) < V(col, j)

\* the statistics of a numeric entry are those of exactly the parsed values
StatisticsOverParsed(info, col) ==
    LET P == Parsing(col) IN
    /\ info.count = Cardinality(P)
    /\ \E i \in P : /\ info.min = Float(V(col, i))
                    /\ \A j \in P : V(col, i) <= V(col, j)
    /\ \E i \in P : /\ info.max = Float(V(col, i))
                    /\ \A j \in P : V(col, i) >= V(col, j)
    /\ info.mean.den > 0
    /\ info.mean.num * Cardinality(P) = info.mean.den * SumParsed(col)
    /\ IsMedianOf(info.median, col)

(* C3 as stated: for every column classified numeric, count is the number  *)
(* of non-missing values that parse as numbers and min, max, mean and      *)
(* median are those of exactly the parsed values, with no fault; and every *)
(* column whose non-missing values are all numeric literals is numeric     *)
(* with count = row_count - missing_count.                                 *)
C3_AllNumericLiteralsIsNumeric ==
    Analyzed =>
        \A k \in ResultColumns :
            /\ InfoOf(k).type = "numeric" =>
                  StatisticsOverParsed(InfoOf(k), CellsOf(k)) /\ faults = {}
            /\ NonMissing(CellsOf(k)) \subseteq Parsing(CellsOf(k)) =>
                  /\ InfoOf(k).type = "numeric"
                  /\ InfoOf(k).count =
                        analysis_results.dataframe.rows - InfoOf(k).missing_count

(* C3 as amended: for every column classified numeric, count is the number *)
(* of non-missing values that parse as numbers and min, max, mean and      *)
(* median are those of exactly the parsed values, with no fault; and every *)
(* column with at least one non-missing value whose non-missing values are *)
(* all numeric literals is numeric with count = row_count - missing_count. *)
C3_StatisticsOverParsedValues ==
    Analyzed =>
        \A k \in ResultColumns :
            /\ InfoOf(k).type = "numeric" =>
                  StatisticsOverParsed(InfoOf(k), CellsOf(k)) /\ faults = {}
            /\ (/\ NonMissing(CellsOf(k)) # {}
                /\ NonMissing(CellsOf(k)) \subseteq Parsing(CellsOf(k))) =>
                  /\ InfoOf(k).type = "numeric"
                  /\ InfoOf(k).count =
                        analysis_results.dataframe.rows - InfoOf(k).missing_count

\* a numeric column with a value that does not parse and a missing cell
C3_Witness ==
    /\ Analyzed
    /\ \E k \in ResultColumns :
          /\ InfoOf(k).type = "numeric"
          /\ NonMissing(CellsOf(k)) # Parsing(CellsOf(k))
          /\ InfoOf(k).missing_count > 0

\* a column of numeric literals and missing cells only, classified numeric
C3_ReachedAllNumeric ==
    /\ Analyzed
    /\ \E k \in ResultColumns :
          /\ InfoOf(k).type = "numeric"
          /\ NonMissing(CellsOf(k)) = Parsing(CellsOf(k))
          /\ InfoOf(k).missing_count > 0
          /\ InfoOf(k).count > 1

-----------------------------------------------------------------------------
(* C4: for every column classified categorical, counts maps each distinct  *)
(* non-missing raw value, compared as it is written (no case folding, no   *)
(* stripping), to its number of occurrences; the counts sum to             *)
(* row_count - missing_count; unique_values is the number of keys.         *)
C4_ValueCountsAreExact ==
    Analyzed =>
        \A k \in ResultColumns :
            InfoOf(k).type = "categorical" =>
                LET col == CellsOf(k)
                    counts == InfoOf(k).counts
                IN  /\ DOMAIN counts = {col[i] : i \in NonMissing(col)}
                    /\ \A v \in DOMAIN counts :
                          counts[v] = Cardinality({i \in 1..Len(col) : col[i] = v})
                    /\ InfoOf(k).missing_count =
                          Cardinality({i \in 1..Len(col) : isnull(col[i])})
                    /\ SumAt([i \in 1..Len(col) |->
                                 IF isnull(col[i]) THEN 0 ELSE counts[col[i]]],
                             FirstOccurrences(col), 1, Len(col))
                          = analysis_results.dataframe.rows - InfoOf(k).missing_count
                    /\ InfoOf(k).unique_values = Cardinality(DOMAIN counts)

\* a categorical column that holds both x and X
C4_Witness ==
    /\ Analyzed
    /\ \E k \in ResultColumns :
          /\ InfoOf(k).type = "categorical"
          /\ {<<"x">>, <<"X">>} \subseteq DOMAIN InfoOf(k).counts

\* a categorical column with one value, which occurs twice
C4_ReachedRepeatedValue ==
    /\ Analyzed
    /\ \E k \in ResultColumns :
          /\ InfoOf(k).type = "categorical"
          /\ Cardinality(DOMAIN InfoOf(k).counts) = 1
          /\ \E v \in DOMAIN InfoOf(k).counts : InfoOf(k).counts[v] = 2

-----------------------------------------------------------------------------
\* the pieces of the second line of the summary: the total and the percentage
ReportedMissing == analysis_results.summary[2][2].d
ReportedPercentage == analysis_results.summary[2][4].f2

(* C5: the dataset-wide missing total that analyze_csv_data reports is the *)
(* sum over the columns of missing_count, and missing_percentage is        *)
(* total / (row_count * column_count) * 100, and exactly 0 with no         *)
(* division by zero when the dataset has no cell.                          *)
C5_MissingTotalAndPercentage ==
    Analyzed =>
        LET rows == analysis_results.dataframe.rows
            cols == Len(analysis_results.dataframe.columns)
            total == SumAt([k \in ResultColumns |-> InfoOf(k).missing_count],
                           ResultColumns, 1, Len(analysis_results.column_info))
        IN  /\ OneEntryPerColumn
            /\ analysis_results.summary[1][2] = D(rows)
            /\ analysis_results.summary[1][4] = D(cols)
            /\ ReportedMissing = total
            /\ IF rows * cols = 0
               THEN ReportedPercentage = Float(0)
               ELSE /\ ReportedPercentage.den > 0
                    /\ ReportedPercentage.num * rows * cols
                          = 100 * total * ReportedPercentage.den
            /\ faults = {}

\* a dataset of two columns, each with a missing cell, not all cells missing
C5_Witness ==
    /\ Analyzed
    /\ Len(analysis_results.column_info) = 2
    /\ InfoOf(1).missing_count > 0
    /\ InfoOf(2).missing_count > 0
    /\ ReportedMissing < 2 * analysis_results.dataframe.rows

\* a dataset with no row
C5_ReachedNoRows ==
    /\ Analyzed
    /\ analysis_results.dataframe.rows = 0

-----------------------------------------------------------------------------
(* C6: when the text does not parse as a table, analyze_csv_data returns   *)
(* the error result and nothing else, and the page shows the error message *)
(* and no overview, no chart, no download and no presentation; the error   *)
(* result is returned in no other case.                                    *)
C6_ParseErrorShowsOnlyError ==
    /\ (pc \notin {"idle", "analyze"} /\ ParseFailure(csv_content) # "none") =>
          /\ pc \in {"returned", "done"}
          /\ DOMAIN analysis_results = {"error"}
          /\ shown = IF pc = "done" THEN << Widget("error", NoColumn) >> ELSE << >>
          /\ chart_images_for_ppt = <<>>
          /\ slides = <<>>
    /\ (Returned /\ IsError(analysis_results)) => ParseFailure(csv_content) # "none"

\* the run of a text with a line too long has ended
C6_Witness ==
    /\ pc = "done"
    /\ ParseFailure(csv_content) = "ParserError"
    /\ IsError(analysis_results)

\* the run of a text with no line but blank ones has ended
C6_ReachedEmptyData ==
    /\ pc = "done"
    /\ ParseFailure(csv_content) = "EmptyDataError"
    /\ csv_content # <<>>

-----------------------------------------------------------------------------
(* C7: analyze_csv_data returns the same result (counts, percentage,       *)
(* column entries in the same order, summary text) for the same text,      *)
(* whatever calls came before: any two completed calls of a session on the *)
(* same text returned the same result.                                     *)
C7_SameInputSameResult ==
    \A i, j \in 1..Len(call_log) :
        call_log[i].input = call_log[j].input =>
            call_log[i].result = call_log[j].result

\* a text analyzed, then another one, then the first again, none an error
C7_Witness ==
    /\ Len(call_log) = 3
    /\ call_log[1].input = call_log[3].input
    /\ call_log[1].input # call_log[2].input
    /\ ~IsError(call_log[1].result)
    /\ ~IsError(call_log[2].result)

-----------------------------------------------------------------------------
\* the rendering loop has begun on a result that is not the error
Rendering == pc \in {"render", "presentation", "done"} /\ Analyzed

\* the positions of chart_images_for_ppt whose chart is of column name
ChartsOf(name) ==
    {c \in 1..Len(chart_images_for_ppt) : chart_images_for_ppt[c].image_buffer.col = name}

(* C8: in the rendering loop a chart is produced for a column exactly when *)
(* the column is categorical with unique_values < 50 or numeric with       *)
(* count > 10; it is a bar chart for the former, a histogram for the       *)
(* latter, and the page shows it.                                          *)
C8_ChartIffSuitable ==
    Rendering =>
        \A k \in ResultColumns :
            LET name == analysis_results.column_info[k].name
                info == InfoOf(k)
                suitable == \/ info.type = "categorical" /\ info.unique_values < 50
                            \/ info.type = "numeric" /\ info.count > 10
            IN  /\ ChartsOf(name) # {} <=> (k < render_pos /\ suitable)
                /\ \A c \in ChartsOf(name) :
                      /\ chart_images_for_ppt[c].image_buffer.chart =
                            IF info.type = "categorical" THEN "bar" ELSE "histogram"
                      /\ \E w \in 1..Len(shown) :
                            shown[w] = Widget(chart_images_for_ppt[c].image_buffer.chart, name)
                /\ (\E w \in 1..Len(shown) :
                        shown[w].col = name /\ shown[w].widget \in {"bar", "histogram"})
                      => ChartsOf(name) # {}

\* the loop is over a categorical column of exactly 50 values, without a chart
C8_Witness ==
    /\ Rendering
    /\ pc = "done"
    /\ \E k \in ResultColumns :
          /\ InfoOf(k).type = "categorical"
          /\ InfoOf(k).unique_values = 50
          /\ ChartsOf(analysis_results.column_info[k].name) = {}

\* the loop is over numeric columns of 10 and of 11 values, and over a
\* categorical one of 49
C8_ReachedTenNumbers ==
    /\ Rendering /\ pc = "done"
    /\ \E k \in ResultColumns : InfoOf(k).type = "numeric" /\ InfoOf(k).count = 10

C8_ReachedElevenNumbers ==
    /\ Rendering /\ pc = "done"
    /\ \E k \in ResultColumns : InfoOf(k).type = "numeric" /\ InfoOf(k).count = 11

C8_Reached49Values ==
    /\ Rendering /\ pc = "done"
    /\ \E k \in ResultColumns :
          InfoOf(k).type = "categorical" /\ InfoOf(k).unique_values = 49

-----------------------------------------------------------------------------
(* C9: for a numeric column with exactly one parsed value the standard     *)
(* deviation is NaN, the summary is written with it and no fault occurs;   *)
(* with n >= 2 parsed values the standard deviation is the sample one:     *)
(* its square is (n*sum(x^2) - sum(x)^2) / (n*(n-1)).                      *)
C9_StdOfOneValueIsNaN ==
    Analyzed =>
        \A k \in ResultColumns :
            InfoOf(k).type = "numeric" =>
                LET n == InfoOf(k).count
                    var == InfoOf(k).std.sqrt
                IN  /\ analysis_results.summary[k + 4][13] = F2(InfoOf(k).std)
                    /\ n = 1 => IsNaN(InfoOf(k).std) /\ faults = {}
                    /\ n >= 2 =>
                          /\ var.den > 0
                          /\ var.num * n * (n - 1) =
                                var.den * (n * SumSquares(CellsOf(k))
                                           - SumParsed(CellsOf(k)) * SumParsed(CellsOf(k)))

\* the run of a dataset with a numeric column of one parsed value has ended
C9_Witness ==
    /\ Analyzed
    /\ pc = "done"
    /\ \E k \in ResultColumns : InfoOf(k).type = "numeric" /\ InfoOf(k).count = 1

-----------------------------------------------------------------------------
\* the position in column_info of the column of chart c
ColumnOfChart(c) ==
    CHOOSE k \in ResultColumns :
        analysis_results.column_info[k].name = chart_images_for_ppt[c].image_buffer.col

NoSuitableShown ==
    \E w \in 1..Len(shown) : shown[w].widget = "no_suitable_columns"

(* C10: during and after the rendering loop num_charts_displayed,          *)
(* chart_idx and the length of chart_images_for_ppt are equal; the entries *)
(* are of distinct columns already visited, in column order; at the end of *)
(* the run the 'no suitable columns' message is shown exactly when the     *)
(* button is not offered; a generated presentation is the title slide      *)
(* followed by one slide per chart, in the order of the charts.            *)
C10_ChartsCountedAndOrdered ==
    Rendering =>
        /\ num_charts_displayed = chart_idx
        /\ chart_idx = Len(chart_images_for_ppt)
        /\ \A c \in 1..Len(chart_images_for_ppt) :
              /\ \E k \in 1..(render_pos - 1) :
                    analysis_results.column_info[k].name
                        = chart_images_for_ppt[c].image_buffer.col
              /\ \A e \in 1..(c - 1) : ColumnOfChart(e) < ColumnOfChart(c)
        /\ pc = "done" => (NoSuitableShown <=> ~ButtonOffered)
        /\ (pc = "done" /\ button /\ ButtonOffered) <=> slides # <<>>
        /\ slides # <<>> =>
              /\ Len(slides) = 1 + Len(chart_images_for_ppt)
              /\ slides[1].layout = 0
              /\ slides[1].picture.chart = "none"
              /\ \A c \in 1..Len(chart_images_for_ppt) :
                    /\ slides[c + 1].layout = 6
                    /\ slides[c + 1].title = chart_images_for_ppt[c].title
                    /\ slides[c + 1].picture = chart_images_for_ppt[c].image_buffer

\* a presentation of two charts was generated
C10_Witness ==
    /\ Rendering
    /\ pc = "done"
    /\ Len(chart_images_for_ppt) = 2
    /\ Len(slides) = 3

\* a run ended with no chart
C10_ReachedNoChart ==
    /\ Rendering
    /\ pc = "done"
    /\ NoSuitableShown

====
